---- MODULE Spec2Model ----
(***************************************************************************)
(* Batch-cycle scheduler of src/src/batch-tournament-creator.ts.           *)
(*                                                                         *)
(* Instants are whole minutes of UTC time counted from 2025-09-07 00:00    *)
(* UTC (the code counts milliseconds; every threshold of the code is a     *)
(* whole number of minutes).  A calendar day is an instant \div 1440.      *)
(* The persisted record keeps its timestamps as ISO strings with           *)
(* millisecond precision, so writing and re-reading an instant returns the *)
(* same instant; the empty string "" of the code is NoTime.                *)
(***************************************************************************)
EXTENDS Integers, Sequences, FiniteSets, TLC

VARIABLES
    state,      \* content of config/batch-tournament.state.json (BatchState)
    clock,      \* instant of the latest invocation (new Date() in main)
    last,       \* observation of the latest invocation of main
    cycles,     \* number of cycles closed so far
    created     \* slots reported created so far, where a behaviour records them

vars == <<state, clock, last, cycles, created>>

(***************************** bounds **************************************)
ThreeHours == 3 * 60
MaxTick == 68                    \* the clock stops after MaxTick steps of 3 hours
MaxNow == MaxTick * ThreeHours   \* 8.5 days: room for two whole cycles
MaxLiveCycles == 2               \* cycles followed where time is unbounded

(*************************** time constants ********************************)
MinutesPerDay == 24 * 60
SevenDays == 7 * 24 * 60         \* 7 * 24 * 60 * 60 * 1000 ms
hoursPerBatch == 5
BatchInterval == hoursPerBatch * 60   \* hoursPerBatch * 60 * 60 * 1000 ms
NoTime == -1                     \* "" : no timestamp recorded
SeedDayNum == 24                 \* startDayNum === 24
PacingDelayMs == 10000           \* setTimeout(resolve, 10000)

(* Time between two successive invocations, in minutes: none, three hours  *)
(* (so that elapsed times fall inside a batch interval, and on its         *)
(* boundary every 15 hours), or seven days.                                *)
Deltas == {0, ThreeHours, SevenDays}

(************************** process environment ****************************)
(* OAUTH_TOKEN, by the properties the code tests: its length, whether all  *)
(* its characters are in [a-zA-Z0-9_-], and whether it contains one of the *)
(* markers "***", "YOUR_TOKEN", "PLACEHOLDER".  len = 0 is unset or "".    *)
Tokens ==
    { [len |-> 0,  wordChars |-> FALSE, marker |-> FALSE],
      [len |-> 20, wordChars |-> TRUE,  marker |-> TRUE],
      [len |-> 20, wordChars |-> TRUE,  marker |-> FALSE] }

(* What the remote service does with one request. *)
Responses == {"created", "rejected", "neterror"}

validateOAuthToken(token) ==
    IF token.len = 0 THEN FALSE
    ELSE IF token.marker THEN FALSE
    ELSE token.wordChars /\ token.len > 10

(* A creation call that sends the request in dry-run mode too. *)
createTeamBattle_IgnoresDryRun(token, dryRun, response) ==
    IF ~validateOAuthToken(token)
    THEN [ok |-> FALSE, network |-> FALSE, error |-> "InvalidCredential"]
    ELSE IF response = "created"
    THEN [ok |-> TRUE, network |-> TRUE, error |-> "none"]
    ELSE IF response = "rejected"
    THEN [ok |-> FALSE, network |-> TRUE, error |-> "RemoteRequestFailed"]
    ELSE [ok |-> FALSE, network |-> TRUE, error |-> "NetworkError"]

(* One creation call: whether it reported ok, and whether fetch was called. *)
createTeamBattle(token, dryRun, response) ==
    IF ~validateOAuthToken(token)
    THEN [ok |-> FALSE, network |-> FALSE, error |-> "InvalidCredential"]
    ELSE IF dryRun
    THEN [ok |-> TRUE, network |-> FALSE, error |-> "none"]
    ELSE IF response = "created"
    THEN [ok |-> TRUE, network |-> TRUE, error |-> "none"]
    ELSE IF response = "rejected"
    THEN [ok |-> FALSE, network |-> TRUE, error |-> "RemoteRequestFailed"]
    ELSE [ok |-> FALSE, network |-> TRUE, error |-> "NetworkError"]

(**************************** schedule generator ***************************)
createTournamentDate(day, hour, minute) ==
    day * MinutesPerDay + hour * 60 + minute

buildTournamentName(dayNum, type) == <<"LMAO", type, dayNum>>

Slot(dayNum, type, day) ==
    [ name |-> buildTournamentName(dayNum, type),
      startDateISO |-> createTournamentDate(day, IF type = "Day" THEN 7 ELSE 18,
                                                 IF type = "Day" THEN 0 ELSE 58),
      dayNum |-> dayNum,
      type |-> type ]

(* getUTCDate() of new Date(2025, 8, 7 + dayOffset): midnight LOCAL time   *)
(* of that date.  East of Greenwich local midnight falls on the previous   *)
(* UTC day; at UTC and west of it, on the same UTC day.                    *)
LocalMidnightUTCDay(dayOffset, tzEast) ==
    IF tzEast THEN dayOffset - 1 ELSE dayOffset

RECURSIVE SeedLoop(_, _, _)
SeedLoop(dayOffset, tzEast, tournaments) ==
    IF dayOffset < 7
    THEN LET currentDayNum == 24 + dayOffset
             day == LocalMidnightUTCDay(dayOffset, tzEast)
         IN  SeedLoop(dayOffset + 1, tzEast,
                      tournaments \o << Slot(currentDayNum, "Day", day),
                                         Slot(currentDayNum, "Night", day) >>)
    ELSE tournaments

RECURSIVE NormalLoop(_, _, _, _)
NormalLoop(dayOffset, startDayNum, startDay, tournaments) ==
    IF dayOffset < 7
    THEN LET currentDayNum == startDayNum + dayOffset
             day == startDay + dayOffset
         IN  NormalLoop(dayOffset + 1, startDayNum, startDay,
                        tournaments \o << Slot(currentDayNum, "Day", day),
                                           Slot(currentDayNum, "Night", day) >>)
    ELSE tournaments

generateTournamentSchedule(startDayNum, startDate, tzEast) ==
    IF startDayNum = SeedDayNum
    THEN SeedLoop(1, tzEast, << Slot(24, "Night", 0) >>)
    ELSE NormalLoop(0, startDayNum, startDate \div MinutesPerDay, << >>)

(****************************** batch runner *******************************)
Min(a, b) == IF a < b THEN a ELSE b

(* tournaments.slice(batchStart, batchStart + batchSize) *)
Slice(tournaments, batchStart, batchSize) ==
    SubSeq(tournaments, batchStart + 1,
           Min(batchStart + batchSize, Len(tournaments)))

(* What the loop does, in order: a timed sleep or a creation call. *)
DelayEvent == [kind |-> "delay", ms |-> PacingDelayMs]
AttemptEvent == [kind |-> "attempt", ms |-> 0]

(* A loop that stops at the first failed creation. *)
RECURSIVE BatchLoop_AbortsOnFailure(_, _, _, _, _, _)
BatchLoop_AbortsOnFailure(i, batchTournaments, token, dryRun, net, acc) ==
    IF i <= Len(batchTournaments) /\ acc.failureCount = 0
    THEN LET result == createTeamBattle(token, dryRun, net[i])
             waited == IF i > 1 THEN << DelayEvent >> ELSE << >>
         IN  BatchLoop_AbortsOnFailure(i + 1, batchTournaments, token, dryRun, net,
                 [ successCount |-> acc.successCount + (IF result.ok THEN 1 ELSE 0),
                   failureCount |-> acc.failureCount + (IF result.ok THEN 0 ELSE 1),
                   attempts |-> Append(acc.attempts,
                                   [ slot |-> batchTournaments[i],
                                     ok |-> result.ok,
                                     network |-> result.network,
                                     error |-> result.error ]),
                   events |-> acc.events \o waited \o << AttemptEvent >> ])
    ELSE acc

(* A loop that sleeps only after a creation that succeeded. *)
RECURSIVE BatchLoop_DelayAfterSuccess(_, _, _, _, _, _)
BatchLoop_DelayAfterSuccess(i, batchTournaments, token, dryRun, net, acc) ==
    IF i <= Len(batchTournaments)
    THEN LET result == createTeamBattle(token, dryRun, net[i])
             waited == IF i > 1 /\ acc.attempts[i - 1].ok
                       THEN << DelayEvent >> ELSE << >>
         IN  BatchLoop_DelayAfterSuccess(i + 1, batchTournaments, token, dryRun, net,
                 [ successCount |-> acc.successCount + (IF result.ok THEN 1 ELSE 0),
                   failureCount |-> acc.failureCount + (IF result.ok THEN 0 ELSE 1),
                   attempts |-> Append(acc.attempts,
                                   [ slot |-> batchTournaments[i],
                                     ok |-> result.ok,
                                     network |-> result.network,
                                     error |-> result.error ]),
                   events |-> acc.events \o waited \o << AttemptEvent >> ])
    ELSE acc

(* The for loop of createBatchOfTournaments from index i (1-based here):   *)
(* a pacing delay before every attempt but the first, then the creation    *)
(* call, then the count of its result.  net[i] is the remote service's     *)
(* answer to the i-th request of the batch, were it sent.                  *)
RECURSIVE BatchLoop(_, _, _, _, _, _)
BatchLoop(i, batchTournaments, token, dryRun, net, acc) ==
    IF i <= Len(batchTournaments)
    THEN LET result == createTeamBattle(token, dryRun, net[i])
             waited == IF i > 1 THEN << DelayEvent >> ELSE << >>
         IN  BatchLoop(i + 1, batchTournaments, token, dryRun, net,
                 [ successCount |-> acc.successCount + (IF result.ok THEN 1 ELSE 0),
                   failureCount |-> acc.failureCount + (IF result.ok THEN 0 ELSE 1),
                   attempts |-> Append(acc.attempts,
                                   [ slot |-> batchTournaments[i],
                                     ok |-> result.ok,
                                     network |-> result.network,
                                     error |-> result.error ]),
                   events |-> acc.events \o waited \o << AttemptEvent >> ])
    ELSE acc

createBatchOfTournaments(tournaments, batchStart, batchSize, token, dryRun, net) ==
    BatchLoop(1, Slice(tournaments, batchStart, batchSize), token, dryRun, net,
              [ successCount |-> 0, failureCount |-> 0,
                attempts |-> << >>, events |-> << >> ])

(****************************** state machine ******************************)
DefaultState ==
    [ lastTournamentDayNum |-> 23,
      currentBatch |-> 0,
      batchStartTime |-> NoTime,
      lastBatchCompletionTime |-> NoTime,
      isRunning |-> FALSE ]

(* The 7-day gate with the threshold written in seconds, not milliseconds. *)
shouldStartNewCycle_Seconds(st, now) ==
    ~st.isRunning
    /\ ( st.lastBatchCompletionTime = NoTime
         \/ now - st.lastBatchCompletionTime >= SevenDays \div 1000 )

shouldStartNewCycle(st, now) ==
    ~st.isRunning
    /\ ( st.lastBatchCompletionTime = NoTime
         \/ now - st.lastBatchCompletionTime >= SevenDays )

(* A cycle start that leaves the previous cycle's start instant in place. *)
StartCycle_KeepsStart(st, now) ==
    IF shouldStartNewCycle(st, now)
    THEN [st EXCEPT !.currentBatch = 1, !.isRunning = TRUE]
    ELSE st

(* State after lines 327-333 (written to the store when a cycle starts). *)
StartCycle(st, now) ==
    IF shouldStartNewCycle(st, now)
    THEN [st EXCEPT !.currentBatch = 1, !.batchStartTime = now, !.isRunning = TRUE]
    ELSE st

expectedBatch(st, now) ==
    ((now - st.batchStartTime) \div BatchInterval) + 1

(* The closure of lines 351-357. *)
CloseCompleted(st, now) ==
    [st EXCEPT !.isRunning = FALSE, !.lastBatchCompletionTime = now]

(* The switch of lines 372-391: <<batchStart, batchSize>>, or << >> for    *)
(* the default branch that throws.                                         *)
(* Slices that share a slot: batch 2 begins at the last slot of batch 1. *)
BatchBounds_Overlapping(currentBatch) ==
    CASE currentBatch = 1 -> << 0, 4 >>
      [] currentBatch = 2 -> << 3, 4 >>
      [] currentBatch = 3 -> << 8, 4 >>
      [] currentBatch = 4 -> << 12, 2 >>
      [] OTHER -> << >>

BatchBounds(currentBatch) ==
    CASE currentBatch = 1 -> << 0, 4 >>
      [] currentBatch = 2 -> << 4, 4 >>
      [] currentBatch = 3 -> << 8, 4 >>
      [] currentBatch = 4 -> << 12, 2 >>
      [] OTHER -> << >>

(* An update that returns the batch index to 0 when the cycle closes. *)
AdvanceAfterBatch_Resets(st, now, result) ==
    IF result.successCount > 0
    THEN LET startDayNum == st.lastTournamentDayNum + 1
             next == st.currentBatch + 1
         IN  IF next > 4
             THEN [st EXCEPT !.currentBatch = 0,
                             !.lastTournamentDayNum = startDayNum + 6,
                             !.isRunning = FALSE,
                             !.lastBatchCompletionTime = now]
             ELSE [st EXCEPT !.currentBatch = next]
    ELSE st

(* An update that advances only when no slot of the batch failed. *)
AdvanceAfterBatch_FullSuccess(st, now, result) ==
    IF result.failureCount = 0
    THEN LET startDayNum == st.lastTournamentDayNum + 1
             next == st.currentBatch + 1
         IN  IF next > 4
             THEN [st EXCEPT !.currentBatch = next,
                             !.lastTournamentDayNum = startDayNum + 6,
                             !.isRunning = FALSE,
                             !.lastBatchCompletionTime = now]
             ELSE [st EXCEPT !.currentBatch = next]
    ELSE st

(* An update that closes the cycle on the last day number of the cycle     *)
(* counted from the previous last day (off by one).                        *)
AdvanceAfterBatch_SixDays(st, now, result) ==
    IF result.successCount > 0
    THEN LET next == st.currentBatch + 1
         IN  IF next > 4
             THEN [st EXCEPT !.currentBatch = next,
                             !.lastTournamentDayNum = st.lastTournamentDayNum + 6,
                             !.isRunning = FALSE,
                             !.lastBatchCompletionTime = now]
             ELSE [st EXCEPT !.currentBatch = next]
    ELSE st

(* An update that never advances. *)
AdvanceAfterBatch_Never(st, now, result) == st

(* An update that advances whether or not a slot was created. *)
AdvanceAfterBatch_Always(st, now, result) ==
    LET startDayNum == st.lastTournamentDayNum + 1
        next == st.currentBatch + 1
    IN  IF next > 4
        THEN [st EXCEPT !.currentBatch = next,
                        !.lastTournamentDayNum = startDayNum + 6,
                        !.isRunning = FALSE,
                        !.lastBatchCompletionTime = now]
        ELSE [st EXCEPT !.currentBatch = next]

(* A closure that leaves the day counter where it was. *)
AdvanceAfterBatch_KeepsDayNum(st, now, result) ==
    IF result.successCount > 0
    THEN LET next == st.currentBatch + 1
         IN  IF next > 4
             THEN [st EXCEPT !.currentBatch = next,
                             !.isRunning = FALSE,
                             !.lastBatchCompletionTime = now]
             ELSE [st EXCEPT !.currentBatch = next]
    ELSE st

(* State after lines 406-419, given the batch's result. *)
AdvanceAfterBatch(st, now, result) ==
    IF result.successCount > 0
    THEN LET startDayNum == st.lastTournamentDayNum + 1
             next == st.currentBatch + 1
         IN  IF next > 4
             THEN [st EXCEPT !.currentBatch = next,
                             !.lastTournamentDayNum = startDayNum + 6,
                             !.isRunning = FALSE,
                             !.lastBatchCompletionTime = now]
             ELSE [st EXCEPT !.currentBatch = next]
    ELSE st

NoBatch == [ successCount |-> 0, failureCount |-> 0,
             attempts |-> << >>, events |-> << >> ]

(* The time gate of line 345 off by one batch. *)
Path_EarlyGate(st, now, token) ==
    LET s1 == StartCycle(st, now)
    IN  IF token.len = 0 THEN "fatal_token"
        ELSE IF ~s1.isRunning THEN "idle"
        ELSE IF expectedBatch(s1, now) + 1 < s1.currentBatch THEN "wait"
        ELSE IF s1.currentBatch > 4 THEN "close"
        ELSE IF BatchBounds(s1.currentBatch) = << >> THEN "fatal_batch"
        ELSE "batch"

(* Which way one invocation of main goes. *)
Path(st, now, token) ==
    LET s1 == StartCycle(st, now)
    IN  IF token.len = 0 THEN "fatal_token"
        ELSE IF ~s1.isRunning THEN "idle"
        ELSE IF expectedBatch(s1, now) < s1.currentBatch THEN "wait"
        ELSE IF s1.currentBatch > 4 THEN "close"
        ELSE IF BatchBounds(s1.currentBatch) = << >> THEN "fatal_batch"
        ELSE "batch"

(* The instant line 346 computes and line 347 logs as the start of the     *)
(* next batch.                                                             *)
nextBatchTime(st) ==
    st.batchStartTime + st.currentBatch * BatchInterval

(* Lines 406-424 with the exit signalled before the state is written. *)
Finish_ExitsFirst(st, now, result) ==
    IF result.failureCount > 0
    THEN [ state |-> st, log |-> << "exit1" >> ]
    ELSE [ state |-> AdvanceAfterBatch(st, now, result),
           log |-> IF result.successCount > 0 THEN << "write" >> ELSE << >> ]

(* Lines 406-424: the record left in the store and, in order, the write to *)
(* the store (line 418) and the non-zero exit (line 423).                  *)
Finish(st, now, result) ==
    [ state |-> AdvanceAfterBatch(st, now, result),
      log |-> (IF result.successCount > 0 THEN << "write" >> ELSE << >>)
              \o (IF result.failureCount > 0 THEN << "exit1" >> ELSE << >>) ]

Count(log, what) == Cardinality({ i \in 1..Len(log) : log[i] = what })

(* One invocation of main: the record it leaves in the store, its exit     *)
(* code, the number of writes to the store, what the batch did, and the    *)
(* order (log) of its writes to the store, its batch and its exit(1).      *)
main(st, now, token, dryRun, tzEast, net) ==
    LET path == Path(st, now, token)
        started == token.len > 0 /\ shouldStartNewCycle(st, now)
        s1 == IF started THEN StartCycle(st, now) ELSE st
        w1 == IF started THEN 1 ELSE 0
        l1 == IF started THEN << "write" >> ELSE << >>
        quiet == [ path |-> path, started |-> started, state |-> s1, exit |-> 0,
                   writes |-> w1, batch |-> 0, scheduleLen |-> 0, result |-> NoBatch,
                   log |-> l1, nextBatchTime |-> NoTime ]
    IN  CASE path = "fatal_token" -> [quiet EXCEPT !.exit = 1, !.log = << "exit1" >>]
          [] path = "idle" -> quiet
          [] path = "wait" -> [quiet EXCEPT !.nextBatchTime = nextBatchTime(s1)]
          [] path = "close" ->
                [quiet EXCEPT !.state = CloseCompleted(s1, now), !.writes = w1 + 1,
                              !.log = l1 \o << "write" >>]
          [] path = "fatal_batch" ->
                [quiet EXCEPT !.exit = 1, !.log = l1 \o << "exit1" >>]
          [] OTHER ->
                LET allTournaments ==
                        generateTournamentSchedule(s1.lastTournamentDayNum + 1,
                                                   s1.batchStartTime, tzEast)
                    bb == BatchBounds(s1.currentBatch)
                    result == createBatchOfTournaments(allTournaments, bb[1], bb[2],
                                                       token, dryRun, net)
                    fin == Finish(s1, now, result)
                IN  [ path |-> path, started |-> started,
                      state |-> fin.state,
                      exit |-> IF Count(fin.log, "exit1") > 0 THEN 1 ELSE 0,
                      writes |-> w1 + Count(fin.log, "write"),
                      batch |-> s1.currentBatch,
                      scheduleLen |-> Len(allTournaments),
                      result |-> result,
                      log |-> l1 \o << "batch" >> \o fin.log,
                      nextBatchTime |-> NoTime ]

(******************************* behaviours ********************************)
NoNet == << "created", "created", "created", "created" >>

(* The remote answers to the four requests a batch may send: every        *)
(* request created, every request failing, in either way, and mixed        *)
(* batches in which the first, the middle two or all but the last fail.    *)
NetScripts ==
    { << "created", "created", "created", "created" >>,
      << "rejected", "rejected", "rejected", "rejected" >>,
      << "neterror", "neterror", "neterror", "neterror" >>,
      << "created", "rejected", "neterror", "created" >>,
      << "rejected", "created", "created", "created" >>,
      << "neterror", "rejected", "neterror", "created" >> }

(* The inputs an invocation reads; one it does not read is left at a fixed  *)
(* value.  The credential's syntax and the dry-run flag are read only by a *)
(* batch (createTeamBattle), the remote answers only when requests are     *)
(* sent, the local time zone only when the seed schedule is built.         *)
TokenInputs(path) ==
    IF path = "batch" THEN Tokens
    ELSE { token \in Tokens : token.len = 0 \/ (token.wordChars /\ ~token.marker) }

DryRunInputs(path) ==
    IF path = "batch" THEN BOOLEAN ELSE {FALSE}

NetInputs(path, token, dryRun) ==
    IF path = "batch" /\ validateOAuthToken(token) /\ ~dryRun
    THEN NetScripts ELSE {NoNet}

TzInputs(path, st) ==
    IF path = "batch" /\ st.lastTournamentDayNum + 1 = SeedDayNum
    THEN BOOLEAN ELSE {FALSE}

NoRun ==
    [ pre |-> DefaultState, now |-> NoTime, dryRun |-> FALSE,
      token |-> [len |-> 0, wordChars |-> FALSE, marker |-> FALSE],
      tzEast |-> FALSE, path |-> "none", started |-> FALSE, exit |-> 0,
      writes |-> 0, batch |-> 0, scheduleLen |-> 0, result |-> NoBatch,
      log |-> << >>, nextBatchTime |-> NoTime ]

Observe(st, now, token, dryRun, tzEast, r) ==
    [ pre |-> st, now |-> now, dryRun |-> dryRun, token |-> token,
      tzEast |-> tzEast, path |-> r.path, started |-> r.started, exit |-> r.exit,
      writes |-> r.writes, batch |-> r.batch, scheduleLen |-> r.scheduleLen,
      result |-> r.result, log |-> r.log, nextBatchTime |-> r.nextBatchTime ]

(* A slot as the remote service tells slots apart: day number and kind. *)
Key(slot) == << slot.dayNum, slot.type >>

(* The slots one run of main reported created. *)
CreatedBy(result) ==
    { Key(result.attempts[i].slot) :
          i \in { j \in 1..Len(result.attempts) : result.attempts[j].ok } }

(* One run of main to its end, delta minutes after the latest one, the     *)
(* remote service answering by one of scripts; track says whether the      *)
(* behaviour records the slots reported created.                           *)
Run(delta, token, dryRun, scripts, track) ==
    LET now == clock + delta
        path == Path(state, now, token)
    IN  /\ last = NoRun
        /\ token \in TokenInputs(path)
        /\ dryRun \in DryRunInputs(path)
        /\ \E tzEast \in TzInputs(path, state),
              net \in NetInputs(path, token, dryRun) \cap scripts :
              \E r \in {main(state, now, token, dryRun, tzEast, net)} :
                    /\ state' = r.state
                    /\ clock' = now
                    /\ last' = Observe(state, now, token, dryRun, tzEast, r)
                    /\ cycles' = cycles + (IF r.path \in {"close", "batch"}
                                              /\ ~r.state.isRunning
                                           THEN 1 ELSE 0)
                    /\ created' = IF track THEN created \cup CreatedBy(r.result)
                                           ELSE created

(* The scheduler starts the process: one run of main to its end. *)
Invoke ==
    \E delta \in Deltas, token \in Tokens, dryRun \in BOOLEAN :
        /\ clock + delta <= MaxNow
        /\ Run(delta, token, dryRun, NetScripts, FALSE)

(* The process exits; only the store survives it. *)
Exit ==
    /\ last # NoRun
    /\ last' = NoRun
    /\ UNCHANGED <<state, clock, cycles, created>>

Init ==
    /\ state = DefaultState
    /\ clock = 0
    /\ last = NoRun
    /\ cycles = 0
    /\ created = {}

Next == Invoke \/ Exit

Spec == Init /\ [][Next]_vars

(* The store as the process may find it: any well-formed record, a running *)
(* cycle having a start instant, no timestamp later than the first         *)
(* invocation.                                                             *)
StoreClock == SevenDays

StoreStates ==
    { st \in [ lastTournamentDayNum : {23, 30},
               currentBatch : 0..6,
               batchStartTime : {NoTime, StoreClock - 4 * BatchInterval, StoreClock},
               lastBatchCompletionTime : {NoTime, 0, StoreClock - BatchInterval},
               isRunning : BOOLEAN ] :
          st.isRunning => st.batchStartTime # NoTime }

InitStore ==
    /\ state \in StoreStates
    /\ clock = StoreClock
    /\ last = NoRun
    /\ cycles = 0
    /\ created = {}

SpecStore == InitStore /\ [][Next]_vars

(* Behaviours that record every slot reported created, from the default    *)
(* state, invoked every 5 hours or after 7 days, with a credential that    *)
(* passes validation or one that does not, the remote service creating     *)
(* all, none or some of the slots of a batch.                              *)
TrackDeltas == {BatchInterval, SevenDays}
TrackTokens == { token \in Tokens : token.len > 0 }
TrackScripts ==
    { NoNet,
      << "rejected", "rejected", "rejected", "rejected" >>,
      << "created", "rejected", "neterror", "created" >> }

TrackedInvoke ==
    \E delta \in TrackDeltas, token \in TrackTokens, dryRun \in BOOLEAN :
        /\ clock + delta <= MaxNow
        /\ Run(delta, token, dryRun, TrackScripts, TRUE)

NextTrack == TrackedInvoke \/ Exit

SpecTrack == Init /\ [][NextTrack]_vars

(* Behaviours in which time never stops.  main reads the instants of the   *)
(* store only through now - batchStartTime (line 341), compared with 5     *)
(* hour thresholds up to currentBatch <= 5, and through                    *)
(* now - lastBatchCompletionTime (line 323), compared with 7 days.  So     *)
(* between two invocations the instants are counted from a sliding origin: *)
(* the clock returns to LiveOrigin and the instants of the store move back *)
(* by the time passed, an age beyond the last threshold being kept at that *)
(* threshold.                                                              *)
LiveOrigin == SevenDays
ElapsedCap == 5 * BatchInterval
LiveDeltas == {0, ThreeHours, SevenDays}

Max(a, b) == IF a >= b THEN a ELSE b

Aged(instant, passed, cap) ==
    IF instant = NoTime THEN NoTime ELSE Max(instant - passed, LiveOrigin - cap)

Rebase(st, passed) ==
    [st EXCEPT !.batchStartTime = Aged(@, passed, ElapsedCap),
               !.lastBatchCompletionTime = Aged(@, passed, SevenDays)]

LiveInvoke ==
    \E delta \in LiveDeltas, token \in Tokens, dryRun \in BOOLEAN :
        /\ cycles < MaxLiveCycles
        /\ Run(delta, token, dryRun, NetScripts, FALSE)

(* The process exits; the origin of time moves to the instant it ran at. *)
LiveExit ==
    /\ last # NoRun
    /\ last' = NoRun
    /\ state' = Rebase(state, clock - LiveOrigin)
    /\ clock' = LiveOrigin
    /\ UNCHANGED <<cycles, created>>

(* An invocation later than the one before, with a credential that passes  *)
(* validation, every request of which the remote service accepts.          *)
GoodInvoke ==
    \E delta \in LiveDeltas \ {0} :
        /\ cycles < MaxLiveCycles
        /\ Run(delta, [len |-> 20, wordChars |-> TRUE, marker |-> FALSE],
               FALSE, {NoNet}, FALSE)

(* The states in which GoodInvoke can take a step (ENABLED                  *)
(* <<GoodInvoke>>_vars): no process is running and the cycles followed are *)
(* not yet all closed.                                                     *)
GoodEnabled == last = NoRun /\ cycles < MaxLiveCycles

InitLive ==
    /\ state = DefaultState
    /\ clock = LiveOrigin
    /\ last = NoRun
    /\ cycles = 0
    /\ created = {}

NextLive == LiveInvoke \/ LiveExit

(* Every process exits (weak fairness of LiveExit); invocations keep       *)
(* occurring at later instants and again and again one of them finds the   *)
(* remote service accepting: strong fairness of GoodInvoke,                *)
(* SF_vars(GoodInvoke), with its enabling condition written as GoodEnabled. *)
SpecLive ==
    /\ InitLive /\ [][NextLive]_vars
    /\ WF_vars(LiveExit)
    /\ (<>[](~GoodEnabled) \/ []<><<GoodInvoke>>_vars)

(***************************************************************************)
(*                               Claims                                    *)
(***************************************************************************)
Ran == last.path # "none"
RanBatch == last.path = "batch"
TokenPresent == last.token.len > 0
Handed == [i \in 1..Len(last.result.attempts) |-> last.result.attempts[i].slot]
NetworkCalls ==
    Cardinality({i \in 1..Len(last.result.attempts) : last.result.attempts[i].network})

(* dueBatch as the specification words it. *)
DueBatch(st, now) == ((now - st.batchStartTime) \div (5 * 60)) + 1

(* C1 (as stated): in every persisted state, isRunning = FALSE implies     *)
(* currentBatch = 0, also after a cycle has been closed.                   *)
C1_IdleMeansBatchZero ==
    ~state.isRunning => state.currentBatch = 0

(* C1 (amended): in every persisted state reachable from the default       *)
(* state, isRunning = FALSE implies currentBatch = 0 while no cycle has    *)
(* been closed yet and currentBatch = 5 once a cycle has been closed.      *)
C1_IdleBatchZeroOrFive ==
    ~state.isRunning =>
        /\ cycles = 0 => state.currentBatch = 0
        /\ cycles > 0 => state.currentBatch = 5

C1_Witness ==
    /\ RanBatch /\ last.batch = 4 /\ last.pre.isRunning
    /\ ~state.isRunning /\ cycles > 0

(* C2: an invocation that runs batch n leaves currentBatch = n + 1 when at *)
(* least one slot succeeded (partial failure included) and = n, with the   *)
(* cycle still active and batch n run again by any later invocation, when  *)
(* every slot failed; an invocation that runs no batch never raises        *)
(* currentBatch above the persisted value.                                 *)
C2_AdvanceOncePerSuccessfulBatch ==
    /\ RanBatch =>
          /\ ~last.started => last.batch = last.pre.currentBatch
          /\ last.result.successCount > 0 => state.currentBatch = last.batch + 1
          /\ last.result.successCount = 0 =>
                /\ state.currentBatch = last.batch
                /\ state.isRunning
                /\ \A delta \in Deltas, token \in Tokens :
                       token.len > 0 =>
                           LET r == main(state, clock + delta, token, FALSE, FALSE, NoNet)
                           IN  r.path = "batch" /\ r.batch = last.batch
    /\ Ran /\ ~RanBatch => state.currentBatch = last.pre.currentBatch

C2_Witness ==
    /\ RanBatch
    /\ last.result.successCount = 2
    /\ last.result.failureCount = 2
    /\ state.currentBatch = last.batch + 1

(* C3: an invocation on an active cycle with dueBatch < currentBatch       *)
(* leaves the persisted state as it was, writes nothing and makes no       *)
(* creation call.                                                          *)
C3_NotDueIsNoOp ==
    Ran /\ last.pre.isRunning
        /\ DueBatch(last.pre, last.now) < last.pre.currentBatch =>
            /\ state = last.pre
            /\ last.writes = 0
            /\ last.result.attempts = << >>

C3_Witness ==
    /\ last.path = "wait"
    /\ last.pre.isRunning
    /\ DueBatch(last.pre, last.now) < last.pre.currentBatch
    /\ last.pre.currentBatch \in 2..4
    /\ (last.now - last.pre.batchStartTime) % BatchInterval # 0

(* C4: an invocation on an inactive cycle whose completion timestamp is    *)
(* present and less than 7 days before now starts no cycle, leaves the     *)
(* persisted state as it was and makes no creation call; a cycle that      *)
(* follows a recorded completion starts at least 7 days after it.          *)
C4_SevenDayGate ==
    /\ Ran /\ ~last.pre.isRunning
           /\ last.pre.lastBatchCompletionTime # NoTime
           /\ last.now - last.pre.lastBatchCompletionTime < 7 * 24 * 60 =>
              /\ ~last.started
              /\ state = last.pre
              /\ last.writes = 0
              /\ last.result.attempts = << >>
    /\ last.started /\ last.pre.lastBatchCompletionTime # NoTime =>
              state.batchStartTime - last.pre.lastBatchCompletionTime >= 7 * 24 * 60
    /\ state.isRunning /\ state.lastBatchCompletionTime # NoTime =>
              state.batchStartTime - state.lastBatchCompletionTime >= 7 * 24 * 60

C4_Witness ==
    /\ last.path = "idle"
    /\ last.pre.lastBatchCompletionTime # NoTime
    /\ last.now - last.pre.lastBatchCompletionTime = SevenDays - ThreeHours

(* C5: an invocation at time T (with the credential present) on an         *)
(* inactive state with no completion timestamp, or one at least 7 days     *)
(* old, starts a cycle and runs batch 1, 4 slots, in that same invocation; *)
(* afterwards isRunning is true, batchStartTime = T, and currentBatch = 2  *)
(* when at least one slot succeeded.                                       *)
C5_NewCycleRunsBatchOne ==
    Ran /\ TokenPresent /\ ~last.pre.isRunning
        /\ ( last.pre.lastBatchCompletionTime = NoTime
             \/ last.now - last.pre.lastBatchCompletionTime >= 7 * 24 * 60 ) =>
            /\ last.started
            /\ RanBatch /\ last.batch = 1
            /\ Len(last.result.attempts) = 4
            /\ state.isRunning
            /\ state.batchStartTime = last.now
            /\ last.result.successCount > 0 => state.currentBatch = 2
            /\ last.result.successCount = 0 => state.currentBatch = 1

C5_Witness ==
    /\ last.started /\ RanBatch
    /\ last.pre.lastBatchCompletionTime # NoTime
    /\ last.result.successCount > 0
    /\ state.currentBatch = 2 /\ state.batchStartTime = last.now

(* C6: when batch 4 runs with at least one success the cycle is closed in  *)
(* that invocation: isRunning is false, lastTournamentDayNum is 7 more     *)
(* than before and lastBatchCompletionTime is the invocation's now; from   *)
(* the default state lastTournamentDayNum is 23 plus 7 per closed cycle.   *)
C6_BatchFourClosesCycle ==
    /\ RanBatch /\ last.batch = 4 /\ last.result.successCount > 0 =>
          /\ ~state.isRunning
          /\ state.lastTournamentDayNum = last.pre.lastTournamentDayNum + 7
          /\ state.lastBatchCompletionTime = last.now
    /\ state.lastTournamentDayNum = 23 + 7 * cycles

C6_Witness ==
    /\ RanBatch /\ last.batch = 4 /\ last.result.successCount > 0
    /\ cycles = 2

(* C7: an invocation (credential present) that reads an active state with  *)
(* currentBatch > 4 and dueBatch >= currentBatch closes the cycle: sets it *)
(* inactive, records lastBatchCompletionTime = now, advances               *)
(* lastTournamentDayNum by 7, persists, and runs no batch.                 *)
C7_PendingClosureAdvancesBySeven ==
    Ran /\ TokenPresent /\ last.pre.isRunning
        /\ last.pre.currentBatch > 4
        /\ DueBatch(last.pre, last.now) >= last.pre.currentBatch =>
            /\ ~state.isRunning
            /\ state.lastBatchCompletionTime = last.now
            /\ state.lastTournamentDayNum = last.pre.lastTournamentDayNum + 7
            /\ last.writes >= 1
            /\ last.result.attempts = << >>

(* The schedule the latest batch invocation generated. *)
LastSchedule ==
    generateTournamentSchedule(last.pre.lastTournamentDayNum + 1,
                               state.batchStartTime, last.tzEast)

DaysOf(schedule) ==
    { schedule[i].startDateISO \div MinutesPerDay : i \in 1..Len(schedule) }

SlotsOn(schedule, day) ==
    Cardinality({ i \in 1..Len(schedule) :
                      schedule[i].startDateISO \div MinutesPerDay = day })

(* C8: for every start day number, the seed 24 of the first cycle          *)
(* included, the schedule has exactly 14 slots on exactly 7 distinct       *)
(* calendar days, 2 slots on each, with day numbers non-decreasing.        *)
C8_FourteenSlotsOnSevenDays ==
    RanBatch =>
        /\ Len(LastSchedule) = 14
        /\ last.scheduleLen = 14
        /\ Cardinality(DaysOf(LastSchedule)) = 7
        /\ \A day \in DaysOf(LastSchedule) : SlotsOn(LastSchedule, day) = 2
        /\ \A i \in 1..(Len(LastSchedule) - 1) :
               LastSchedule[i].dayNum <= LastSchedule[i + 1].dayNum

(* C9: in every cycle, the first included, batches 1, 2, 3, 4 hand the     *)
(* client exactly 4, 4, 4, 2 slots, those at schedule positions [0,4),     *)
(* [4,8), [8,12), [12,14); an active state with any other currentBatch     *)
(* that reaches batch selection ends in a fatal error with no creation     *)
(* call and no write.                                                      *)
C9_BatchSlices ==
    /\ RanBatch =>
          LET first == 4 * (last.batch - 1)
              size == IF last.batch = 4 THEN 2 ELSE 4
          IN  /\ last.batch \in 1..4
              /\ Len(last.result.attempts) = size
              /\ \A i \in 1..size : Handed[i] = LastSchedule[first + i]
    /\ last.path = "fatal_batch" =>
          /\ last.exit = 1
          /\ last.result.attempts = << >>
          /\ last.writes = 0
          /\ state = last.pre

(* C10 (as stated): in dry-run mode, for every credential that passes the  *)
(* presence check, every slot of the batch reports success without a       *)
(* network call, so failureCount = 0.                                      *)
C10_DryRunAlwaysSucceeds ==
    RanBatch /\ last.dryRun /\ TokenPresent =>
        /\ last.result.failureCount = 0
        /\ \A i \in 1..Len(last.result.attempts) :
               /\ last.result.attempts[i].ok
               /\ ~last.result.attempts[i].network

(* C10 (amended): in dry-run mode no slot of a batch causes a network      *)
(* call, whatever the credential; every slot reports success, and          *)
(* failureCount = 0, when the credential passes the syntactic validation   *)
(* (more than 10 characters, all in [a-zA-Z0-9_-], no placeholder marker); *)
(* with a credential that is present but fails it every slot reports an    *)
(* invalid-credential failure.                                             *)
C10_DryRunNoNetworkValidTokenSucceeds ==
    RanBatch /\ last.dryRun =>
        /\ NetworkCalls = 0
        /\ IF last.token.len > 10 /\ last.token.wordChars /\ ~last.token.marker
           THEN /\ last.result.failureCount = 0
                /\ last.result.successCount = Len(last.result.attempts)
                /\ \A i \in 1..Len(last.result.attempts) : last.result.attempts[i].ok
           ELSE /\ last.result.successCount = 0
                /\ last.result.failureCount = Len(last.result.attempts)
                /\ \A i \in 1..Len(last.result.attempts) :
                       last.result.attempts[i].error = "InvalidCredential"

C10_Witness ==
    /\ RanBatch /\ last.dryRun
    /\ last.token.len > 10 /\ last.token.wordChars /\ ~last.token.marker
    /\ Len(last.result.attempts) = 4
    /\ last.result.failureCount = 0
    /\ NetworkCalls = 0

(* C11: an invocation exits non-zero exactly when a slot of the batch it   *)
(* ran failed or it met a fatal condition (missing credential, invalid     *)
(* batch index); it exits zero on a fully successful batch and on every    *)
(* no-op; exit(1) is the last thing an invocation does, and when slots     *)
(* failed it comes after the write that stores the advanced state.         *)
C11_ExitCodeAndOrder ==
    Ran =>
        /\ last.exit = 1 <=>
              \/ RanBatch /\ last.result.failureCount > 0
              \/ last.path \in {"fatal_token", "fatal_batch"}
        /\ RanBatch /\ last.result.failureCount = 0 => last.exit = 0
        /\ last.path \in {"idle", "wait", "close"} => last.exit = 0
        /\ last.exit = 1 <=> Count(last.log, "exit1") = 1
        /\ \A i \in 1..Len(last.log) : last.log[i] = "exit1" => i = Len(last.log)
        /\ RanBatch /\ last.result.failureCount > 0 =>
              /\ state = AdvanceAfterBatch(
                             IF last.started THEN StartCycle(last.pre, last.now)
                                             ELSE last.pre,
                             last.now, last.result)
              /\ last.result.successCount > 0 =>
                    /\ state.currentBatch = last.batch + 1
                    /\ Len(last.log) >= 3
                    /\ last.log[Len(last.log) - 2] = "batch"
                    /\ last.log[Len(last.log) - 1] = "write"
              /\ last.result.successCount = 0 =>
                    /\ state.currentBatch = last.batch
                    /\ last.log[Len(last.log) - 1] = "batch"

C11_Witness ==
    /\ RanBatch /\ ~last.started
    /\ last.result.successCount > 0 /\ last.result.failureCount > 0
    /\ last.exit = 1
    /\ last.log = << "batch", "write", "exit1" >>
    /\ state # last.pre

(* C12: a failed creation never aborts the batch: the slots attempted are  *)
(* the slots of the selected slice, each once and in schedule order, and   *)
(* successCount + failureCount is the number of slots of the slice.        *)
C12_EverySlotAttemptedOnce ==
    RanBatch =>
        LET bounds == BatchBounds(last.batch)
            slice == Slice(LastSchedule, bounds[1], bounds[2])
            attempts == last.result.attempts
        IN  /\ Len(attempts) = Len(slice)
            /\ \A i \in 1..Len(slice) : attempts[i].slot = slice[i]
            /\ last.result.successCount + last.result.failureCount = Len(slice)
            /\ last.result.successCount =
                  Cardinality({i \in 1..Len(attempts) : attempts[i].ok})
            /\ last.result.failureCount =
                  Cardinality({i \in 1..Len(attempts) : ~attempts[i].ok})

C12_Witness ==
    /\ RanBatch
    /\ Len(last.result.attempts) = 4
    /\ last.result.attempts[1].error = "NetworkError"
    /\ last.result.attempts[2].error = "RemoteRequestFailed"
    /\ last.result.attempts[4].ok
    /\ last.result.successCount = 1 /\ last.result.failureCount = 3

(* C13: in a batch of k slots the loop performs exactly k - 1 pacing       *)
(* delays of 10 seconds, one between attempt i and attempt i + 1 for each  *)
(* i, none before the first attempt, whether attempt i succeeded or not.   *)
C13_DelayBetweenAttempts ==
    RanBatch =>
        LET events == last.result.events
            k == Len(last.result.attempts)
        IN  /\ k >= 1
            /\ Len(events) = 2 * k - 1
            /\ \A j \in 1..Len(events) :
                   IF j % 2 = 1
                   THEN events[j].kind = "attempt"
                   ELSE events[j].kind = "delay" /\ events[j].ms = 10 * 1000
            /\ Cardinality({j \in 1..Len(events) : events[j].kind = "delay"}) = k - 1

C13_Witness ==
    /\ RanBatch
    /\ Len(last.result.attempts) = 4
    /\ ~last.result.attempts[1].ok
    /\ last.result.attempts[2].ok
    /\ Len(last.result.events) = 7
    /\ last.result.events[2] = DelayEvent

(* C14: when an invocation ends because the next batch is not yet due, the *)
(* instant it reports is the earliest instant t at which batch             *)
(* currentBatch is due: dueBatch(t) >= currentBatch and                    *)
(* dueBatch(t - 1 minute) < currentBatch.                                  *)
C14_ReportsEarliestDueInstant ==
    last.path = "wait" =>
        /\ DueBatch(last.pre, last.nextBatchTime) >= last.pre.currentBatch
        /\ DueBatch(last.pre, last.nextBatchTime - 1) < last.pre.currentBatch

(* The number of cycles closed before the cycle of the latest batch. *)
CycleIndex ==
    cycles - (IF last.batch = 4 /\ last.result.successCount > 0 THEN 1 ELSE 0)

DayNumsOf(schedule) == { schedule[i].dayNum : i \in 1..Len(schedule) }

(* C15: from the default state, the schedule of the cycle that follows c   *)
(* closed cycles starts at lastTournamentDayNum + 1 = 24 + 7c, uses the    *)
(* day numbers 24 + 7c .. 30 + 7c in non-decreasing order, and holds no    *)
(* (day number, kind) pair twice; so its first number is one more than the *)
(* last number of the cycle before and its range meets the range of no     *)
(* earlier cycle.                                                          *)
C15_SequenceNumbersAcrossCycles ==
    RanBatch =>
        LET c == CycleIndex
            schedule == LastSchedule
            n == Len(schedule)
        IN  /\ schedule[1].dayNum = last.pre.lastTournamentDayNum + 1
            /\ schedule[1].dayNum = 24 + 7 * c
            /\ schedule[n].dayNum = 30 + 7 * c
            /\ DayNumsOf(schedule) = (24 + 7 * c)..(30 + 7 * c)
            /\ \A i \in 1..(n - 1) : schedule[i].dayNum <= schedule[i + 1].dayNum
            /\ \A i, j \in 1..n :
                   i # j => <<schedule[i].dayNum, schedule[i].type>>
                              # <<schedule[j].dayNum, schedule[j].type>>
            /\ \A earlier \in 0..(c - 1) :
                   /\ DayNumsOf(schedule) \cap ((24 + 7 * earlier)..(30 + 7 * earlier)) = {}
                   /\ earlier = c - 1 => schedule[1].dayNum = (30 + 7 * earlier) + 1
            /\ ~state.isRunning =>
                   state.lastTournamentDayNum = schedule[n].dayNum

C15_Witness ==
    /\ RanBatch /\ last.batch = 4 /\ last.result.successCount > 0
    /\ CycleIndex = 1
    /\ LastSchedule[1].dayNum = 31
    /\ state.lastTournamentDayNum = 37

(* C18: two different batches of one cycle never run less than 5 hours     *)
(* apart: after an invocation that ran batch n with a success and left the *)
(* cycle active, no invocation less than 5 hours later runs a batch.       *)
C18_BatchesFiveHoursApart ==
    RanBatch /\ last.result.successCount > 0 /\ state.isRunning =>
        \A delta \in Deltas, token \in Tokens :
            token.len > 0 /\ delta < 5 * 60 =>
                main(state, clock + delta, token, FALSE, FALSE, NoNet).path # "batch"

(* C19: in a cycle that is not the seed cycle, when batch n is invoked at  *)
(* batchStartTime + (n - 1) * 5 hours, every slot handed to the creation   *)
(* call starts strictly later than the instant of the invocation.          *)
C19_HandedSlotsInTheFuture ==
    RanBatch /\ last.pre.lastTournamentDayNum + 1 # SeedDayNum
             /\ last.now = state.batchStartTime + (last.batch - 1) * 5 * 60 =>
        \A i \in 1..Len(last.result.attempts) :
            last.result.attempts[i].slot.startDateISO > last.now

(* The keys of the slots of batch b of a schedule. *)
BatchKeys(schedule, b) ==
    LET bounds == BatchBounds(b)
        slice == Slice(schedule, bounds[1], bounds[2])
    IN  { Key(slice[i]) : i \in 1..Len(slice) }

(* C16: no slot is reported created twice: a run of main hands to the      *)
(* creation call no slot that an earlier run reported created.             *)
C16_CreatedSlotNeverHandedAgain ==
    [][ \A i \in 1..Len(last'.result.attempts) :
            Key(last'.result.attempts[i].slot) \notin created ]_vars

C16_Witness ==
    /\ RanBatch /\ cycles = 1 /\ last.batch = 2
    /\ Cardinality(created) > 4
    /\ \E key \in created : key[1] <= 30
    /\ CreatedBy(last.result) # {}

(* C17 (as stated): when a cycle is closed, every slot of its schedule has *)
(* been reported created.                                                  *)
C17_ClosedCycleFullyCreated ==
    RanBatch /\ ~state.isRunning =>
        \A i \in 1..Len(LastSchedule) : Key(LastSchedule[i]) \in created

(* C17 (amended): when a cycle is closed, each of its four batches has had *)
(* at least one slot reported created, and every slot reported created in  *)
(* the cycle is a slot of its schedule.                                    *)
C17_ClosedCycleEveryBatchCreated ==
    RanBatch /\ ~state.isRunning =>
        /\ \A b \in 1..4 : BatchKeys(LastSchedule, b) \cap created # {}
        /\ \A key \in created :
               key[1] > last.pre.lastTournamentDayNum =>
                   \E i \in 1..Len(LastSchedule) : Key(LastSchedule[i]) = key

C17_Witness ==
    /\ RanBatch /\ ~state.isRunning /\ cycles = 2
    /\ \E i \in 1..Len(LastSchedule) : Key(LastSchedule[i]) \notin created
    /\ \A b \in 1..4 : BatchKeys(LastSchedule, b) \cap created # {}

(* C20: when invocations keep occurring at later instants and again and    *)
(* again a batch has a created slot, every active cycle is eventually      *)
(* closed, the day counter being 7 more per closed cycle, and after every  *)
(* closure (and from the default state) a cycle is eventually started;     *)
(* followed for MaxLiveCycles cycles.                                      *)
C20_CyclesCloseAndRestart ==
    /\ [](state.lastTournamentDayNum = 23 + 7 * cycles)
    /\ \A c \in 0..(MaxLiveCycles - 1) :
           (state.isRunning /\ cycles = c) ~> (~state.isRunning /\ cycles = c + 1)
    /\ (~state.isRunning /\ cycles < MaxLiveCycles) ~> state.isRunning

C20_Witness ==
    /\ cycles = 1 /\ state.isRunning
    /\ last.started /\ RanBatch
    /\ last.pre.lastTournamentDayNum = 30
    /\ last.now - last.pre.lastBatchCompletionTime >= SevenDays

====
